---- MODULE Spec2Model ----
(***************************************************************************)
(* The hexagonal-grid city growth simulation of genuary8/sketch.js: tiles, *)
(* agents, the grid queries and the per-frame draw() loop.                 *)
(*                                                                         *)
(* Numbers.  Time is in milliseconds, as millis() gives it.  A morph       *)
(* progress p is kept as the integer p * ProgressOne, which is exact for   *)
(* whole milliseconds.  A probability is kept in thousandths (0.7 is 700), *)
(* shadowFactor in tenths (0.5 is 5).  A value drawn by random() is        *)
(* d / DrawDen for d in 0 .. DrawDen-1.                                    *)
(***************************************************************************)
EXTENDS Integers, Sequences, FiniteSets, TLC

VARIABLES
  nCols, nRows,   \* Grid.nCols, Grid.nRows
  tiles,          \* Grid.tiles: index r * nCols + q -> tile fields
  agents,         \* Grid.agents: sequence of [tile, alive]
  frameCount,     \* p5 frameCount
  now,            \* the value millis() returns
  controls,       \* the controls object
  pc,             \* position inside draw()
  ai,             \* index of the agent the draw() loop is at
  ret,            \* value returned by the last aggregate / evolveAll / decayPass
  tilesB, agentsB, nowB,  \* a second run of the same sketch (same seed, same controls)
  stream,         \* values of the seeded generator one run has consumed, the other not yet
  posA, posB,     \* how many values of the generator each run has consumed
  probe, out      \* arguments and results of a grid query

simVars == <<nCols, nRows, tiles, agents, frameCount, now, controls, pc, ai, ret>>
detVars == <<tilesB, agentsB, nowB, stream, posA, posB>>
hexVars == <<probe, out>>
vars == <<nCols, nRows, tiles, agents, frameCount, now, controls, pc, ai, ret,
          tilesB, agentsB, nowB, stream, posA, posB, probe, out>>

----------------------------------------------------------------------------
(* Bounds of the model *)

MaxCols == 3          \* grid of the simulated runs
MaxRows == 3
HexCols == 5          \* largest grid of the grid queries
HexRows == 4
ScenCols == 4         \* grid of the mid-run scenarios
ScenRows == 3
DrawDen == 4          \* random() yields d / DrawDen
MaxFrame == 3         \* frames drawn in a simulated run
ScenFrames == 2       \* frames drawn from a mid-run scenario

MaxClock == 3000
MaxCalls == 4

Draws == 0 .. (DrawDen - 1)
ClockSteps == {500, 1000}   \* milliseconds between two frames

----------------------------------------------------------------------------
(* Static tables *)

STATE_SPACE == [EMPTY |-> 0, CANDIDATE |-> 1, CRYSTALLIZED |-> 2]

LEVEL == [EMPTY |-> 0, HOUSE |-> 1, SHOP |-> 2, TOWER |-> 3, FACTORY |-> 4]

\* EVOLUTION[LEVEL.FACTORY] is null and EVOLUTION[LEVEL.EMPTY] is undefined:
\* both are outside the domain.
EVOLUTION ==
  (LEVEL.HOUSE :> [threshold |-> 2, next |-> LEVEL.SHOP]) @@
  (LEVEL.SHOP  :> [threshold |-> 3, next |-> LEVEL.TOWER]) @@
  (LEVEL.TOWER :> [threshold |-> 4, next |-> LEVEL.FACTORY])

SERVICE_RANGE ==
  (LEVEL.EMPTY :> 0) @@ (LEVEL.HOUSE :> 1) @@ (LEVEL.SHOP :> 2) @@
  (LEVEL.TOWER :> 3) @@ (LEVEL.FACTORY :> 4)

MAX_COMPETITORS ==
  (LEVEL.HOUSE :> 4) @@ (LEVEL.SHOP :> 2) @@ (LEVEL.TOWER :> 1) @@
  (LEVEL.FACTORY :> 0)

morphDuration == 1000

ProgressOne == 2 * morphDuration * morphDuration * morphDuration

null == 0 - 1

----------------------------------------------------------------------------
(* Small helpers *)

Abs(x) == IF x < 0 THEN 0 - x ELSE x

Max2(a, b) == IF a >= b THEN a ELSE b

Max3(a, b, c) == Max2(a, Max2(b, c))

Range(s) == {s[i] : i \in DOMAIN s}

\* F applied to the value of x
Bind(x, F(_)) == CHOOSE r \in {F(v) : v \in {x}} : TRUE

\* array.map(f) for a sequence
MapSeq(s, F(_)) == [i \in 1 .. Len(s) |-> F(s[i])]

----------------------------------------------------------------------------
(* Grid geometry *)

NumTiles == nCols * nRows

TileIds == 0 .. (NumTiles - 1)

\* Tile.q and Tile.r of the tile pushed at position i by _createTiles
TileQ(i) == i % nCols

TileR(i) == i \div nCols

getTile(q, r) ==
  IF q < 0 \/ q >= nCols \/ r < 0 \/ r >= nRows THEN null
  ELSE r * nCols + q

OddDirections ==
  << <<1, 0>>, <<1, 1>>, <<0, 1>>, <<0 - 1, 1>>, <<0 - 1, 0>>, <<0, 0 - 1>> >>

EvenDirections ==
  << <<1, 0 - 1>>, <<1, 0>>, <<0, 1>>, <<0 - 1, 0>>, <<0 - 1, 0 - 1>>, <<0, 0 - 1>> >>

NotNull(t) == t # null

\* getNeighbors with the even-column table used for every column
getNeighborsOneTable(q, r) ==
  LET At(d) == getTile(q + d[1], r + d[2])
  IN  SelectSeq(MapSeq(EvenDirections, At), NotNull)

\* getNeighbors with the two direction tables exchanged
getNeighborsTablesSwapped(q, r) ==
  LET isOddCol == (q % 2 = 1)
      directions == IF isOddCol THEN EvenDirections ELSE OddDirections
      At(d) == getTile(q + d[1], r + d[2])
  IN  SelectSeq(MapSeq(directions, At), NotNull)

getNeighbors(q, r) ==
  LET isOddCol == (q % 2 = 1)
      directions == IF isOddCol THEN OddDirections ELSE EvenDirections
      At(d) == getTile(q + d[1], r + d[2])
  IN  SelectSeq(MapSeq(directions, At), NotNull)

\* offsetToCube with z = r - q / 2, the parity correction left out
offsetToCubeNoParity(q, r) ==
  LET x == 2 * q
      z == 2 * r - q
      y == 0 - x - z
  IN  [x |-> x, y |-> y, z |-> z]

\* Cube coordinates, each doubled: the division by 2 of
\* z = r - (q - (q & 1)) / 2 is left undone so that a fraction shows as an
\* odd value.
offsetToCube(q, r) ==
  LET x == 2 * q
      z == 2 * r - (q - (q % 2))
      y == 0 - x - z
  IN  [x |-> x, y |-> y, z |-> z]

\* twice the value hexDistance returns
hexDistanceTwice(t1, t2) ==
  LET a == offsetToCube(TileQ(t1), TileR(t1))
      b == offsetToCube(TileQ(t2), TileR(t2))
  IN  Max3(Abs(a.x - b.x), Abs(a.y - b.y), Abs(a.z - b.z))

hexDistance(t1, t2) == hexDistanceTwice(t1, t2) \div 2

\* the tiles in the order _createTiles pushes them
tilesInOrder == [i \in 1 .. NumTiles |-> i - 1]

\* getTilesInRange comparing with < instead of <=
getTilesInRangeStrict(q, r, range) ==
  LET center == getTile(q, r)
      InRange(t) == hexDistance(center, t) < range
  IN  IF center = null THEN <<>> ELSE SelectSeq(tilesInOrder, InRange)

\* this.tiles.filter(P)
TilesWhere(P(_)) == SelectSeq(tilesInOrder, P)

getTilesInRange(q, r, range) ==
  LET center == getTile(q, r)
      InRange(t) == hexDistance(center, t) <= range
  IN  IF center = null THEN <<>> ELSE TilesWhere(InRange)

----------------------------------------------------------------------------
(* Tile *)

\* the fields a Tile has after its constructor
NewTile ==
  [state |-> 0, level |-> 0, targetLevel |-> 0,
   morphProgress |-> ProgressOne, morphStartTime |-> 0]

IsCrystallized(ts, t) == ts[t].state = STATE_SPACE.CRYSTALLIZED

\* canPromote without the shadow test
canPromoteNoShadow(ts, t) ==
  IF ts[t].state # STATE_SPACE.CRYSTALLIZED THEN FALSE
  ELSE
    LET neighbors == getNeighbors(TileQ(t), TileR(t))
        currentLevel == ts[t].level
    IN  IF currentLevel \notin DOMAIN EVOLUTION THEN FALSE
        ELSE
          LET config == EVOLUTION[currentLevel]
              Lower(n) == IsCrystallized(ts, n) /\ ts[n].level <= currentLevel
          IN  Len(SelectSeq(neighbors, Lower)) >= config.threshold

\* Tile.canPromote of tile t on the tiles ts
canPromote(ts, t) ==
  IF ts[t].state # STATE_SPACE.CRYSTALLIZED THEN FALSE
  ELSE
    LET neighbors == getNeighbors(TileQ(t), TileR(t))
        currentLevel == ts[t].level
    IN  IF currentLevel \notin DOMAIN EVOLUTION THEN FALSE
        ELSE
          LET config == EVOLUTION[currentLevel]
              Lower(n) == IsCrystallized(ts, n) /\ ts[n].level <= currentLevel
              lowerNeighbors == SelectSeq(neighbors, Lower)
              servedEnough == Len(lowerNeighbors) >= config.threshold
              \* shadowRadius = SERVICE_RANGE[next] * shadowFactor, in tenths
              shadowRadius10 == SERVICE_RANGE[config.next] * controls.shadowFactor
              inShadow ==
                \E n \in TileIds :
                  /\ n # t
                  /\ IsCrystallized(ts, n)
                  /\ hexDistance(t, n) * 10 <= shadowRadius10
                  /\ ts[n].level >= config.next
          IN  servedEnough /\ ~inShadow

\* setTargetLevel committing the level at once instead of leaving it to
\* updateMorphing
setTargetLevelCommitting(tl, newLevel, time) ==
  IF newLevel = tl.level THEN tl
  ELSE [tl EXCEPT !.level = newLevel,
                  !.targetLevel = newLevel,
                  !.morphProgress = 0,
                  !.morphStartTime = time]

\* setTargetLevel without its early return for newLevel = level
setTargetLevelUnguarded(tl, newLevel, time) ==
  [tl EXCEPT !.targetLevel = newLevel,
             !.morphProgress = 0,
             !.morphStartTime = time]

\* Tile.setTargetLevel on the tile fields tl, millis() being time
setTargetLevel(tl, newLevel, time) ==
  IF newLevel = tl.level THEN tl
  ELSE [tl EXCEPT !.targetLevel = newLevel,
                  !.morphProgress = 0,
                  !.morphStartTime = time]

\* the easing with "1 -" dropped from its second half
EasedProgressHalfLost(elapsed) ==
  LET e == IF elapsed < 0 THEN 0
           ELSE IF elapsed > morphDuration THEN morphDuration ELSE elapsed
      back == 2 * morphDuration - 2 * e
  IN  IF 2 * e < morphDuration
        THEN 8 * e * e * e
        ELSE back * back * back

\* constrain(elapsed / morphDuration, 0, 1) followed by the cubic easing,
\* as a multiple of 1 / ProgressOne
EasedProgress(elapsed) ==
  LET e == IF elapsed < 0 THEN 0
           ELSE IF elapsed > morphDuration THEN morphDuration ELSE elapsed
      back == 2 * morphDuration - 2 * e
  IN  IF 2 * e < morphDuration
        THEN 8 * e * e * e
        ELSE ProgressOne - back * back * back

\* updateMorphing committing the level only, the state left as it is
updateMorphingLevelOnly(tl, time) ==
  IF tl.morphProgress >= ProgressOne THEN tl
  ELSE
    LET progress == EasedProgress(time - tl.morphStartTime)
    IN  IF progress >= ProgressOne
          THEN [tl EXCEPT !.morphProgress = progress, !.level = tl.targetLevel]
          ELSE [tl EXCEPT !.morphProgress = progress]

\* updateMorphing completing the transition only above 1.0
updateMorphingNeverCommitting(tl, time) ==
  IF tl.morphProgress >= ProgressOne THEN tl
  ELSE
    LET progress == EasedProgress(time - tl.morphStartTime)
    IN  IF progress > ProgressOne
          THEN [tl EXCEPT !.morphProgress = progress,
                          !.level = tl.targetLevel,
                          !.state = IF tl.targetLevel = LEVEL.EMPTY
                                      THEN STATE_SPACE.EMPTY ELSE @]
          ELSE [tl EXCEPT !.morphProgress = progress]

\* Tile.updateMorphing on the tile fields tl, millis() being time
updateMorphing(tl, time) ==
  IF tl.morphProgress >= ProgressOne THEN tl
  ELSE
    LET elapsed == time - tl.morphStartTime
        progress == EasedProgress(elapsed)
    IN  IF progress >= ProgressOne
          THEN [tl EXCEPT !.morphProgress = progress,
                          !.level = tl.targetLevel,
                          !.state = IF tl.targetLevel = LEVEL.EMPTY
                                      THEN STATE_SPACE.EMPTY ELSE @]
          ELSE [tl EXCEPT !.morphProgress = progress]

----------------------------------------------------------------------------
(* random().  A run is a record g = [tiles, agents, rnd, starved, ret]:      *)
(* rnd is the sequence of values the generator yields next, starved tells   *)
(* that a value was requested after rnd ran out.                            *)

NextDraw(g) == IF g.rnd = <<>> THEN 0 ELSE Head(g.rnd)

Drawn(g) ==
  IF g.rnd = <<>> THEN [g EXCEPT !.starved = TRUE]
  ELSE [g EXCEPT !.rnd = Tail(@)]

\* random() < p for the drawn value d / DrawDen, p in thousandths
Below(d, p) == d * 1000 < p * DrawDen

\* random(array): array[floor(random() * array.length)]
Pick(d, arr) == arr[(d * Len(arr)) \div DrawDen + 1]

Returning(g, op, val) == [g EXCEPT !.ret = [op |-> op, val |-> val]]

----------------------------------------------------------------------------
(* Agent *)

NewAgent(t) == [tile |-> t, alive |-> TRUE]

couldBeCandidate(ts, t) ==
  \E n \in Range(getNeighbors(TileQ(t), TileR(t))) : IsCrystallized(ts, n)

\* aggregate leaving the agent alive after it crystallized its tile
aggregateStayingAlive(g, k, rho) ==
  LET a == g.agents[k] IN
  IF ~a.alive THEN Returning(g, "aggregate", FALSE)
  ELSE IF g.tiles[a.tile].state = STATE_SPACE.CRYSTALLIZED
    THEN Returning(g, "aggregate", FALSE)
  ELSE IF couldBeCandidate(g.tiles, a.tile)
    THEN
      LET d == NextDraw(g)
          g1 == Drawn(g)
      IN  IF Below(d, rho)
            THEN Returning(
                   [g1 EXCEPT !.tiles[a.tile].state = STATE_SPACE.CRYSTALLIZED,
                              !.tiles[a.tile].level = LEVEL.HOUSE],
                   "aggregate", TRUE)
            ELSE Returning(
                   [g1 EXCEPT !.tiles[a.tile].state = STATE_SPACE.CANDIDATE],
                   "aggregate", FALSE)
  ELSE Returning(g, "aggregate", FALSE)

\* aggregate without its early return on a CRYSTALLIZED tile
aggregateOnAnyTile(g, k, rho) ==
  LET a == g.agents[k] IN
  IF ~a.alive THEN Returning(g, "aggregate", FALSE)
  ELSE IF couldBeCandidate(g.tiles, a.tile)
    THEN
      LET d == NextDraw(g)
          g1 == Drawn(g)
      IN  IF Below(d, rho)
            THEN Returning(
                   [g1 EXCEPT !.tiles[a.tile].state = STATE_SPACE.CRYSTALLIZED,
                              !.tiles[a.tile].level = LEVEL.HOUSE,
                              !.agents[k].alive = FALSE],
                   "aggregate", TRUE)
            ELSE Returning(
                   [g1 EXCEPT !.tiles[a.tile].state = STATE_SPACE.CANDIDATE],
                   "aggregate", FALSE)
  ELSE Returning(g, "aggregate", FALSE)

\* Agent.aggregate(rho) of the k-th agent
aggregate(g, k, rho) ==
  LET a == g.agents[k] IN
  IF ~a.alive THEN Returning(g, "aggregate", FALSE)
  ELSE IF g.tiles[a.tile].state = STATE_SPACE.CRYSTALLIZED
    THEN Returning(g, "aggregate", FALSE)
  ELSE IF couldBeCandidate(g.tiles, a.tile)
    THEN
      LET d == NextDraw(g)
          g1 == Drawn(g)
      IN  IF Below(d, rho)
            THEN Returning(
                   [g1 EXCEPT !.tiles[a.tile].state = STATE_SPACE.CRYSTALLIZED,
                              !.tiles[a.tile].level = LEVEL.HOUSE,
                              !.agents[k].alive = FALSE],
                   "aggregate", TRUE)
            ELSE Returning(
                   [g1 EXCEPT !.tiles[a.tile].state = STATE_SPACE.CANDIDATE],
                   "aggregate", FALSE)
  ELSE Returning(g, "aggregate", FALSE)

RECURSIVE SumOver(_, _)
SumOver(S, f) ==
  IF S = {} THEN 0
  ELSE LET x == CHOOSE y \in S : TRUE
       IN  f[x] + SumOver(S \ {x}, f)

centerTile == getTile(nCols \div 2, nRows \div 2)

\* Agent.getServiceScore(tile) as the fraction num / den; den = 0 is Infinity
getServiceScore(ts, t) ==
  LET Contribution(other) ==
        IF ts[other].state # STATE_SPACE.CRYSTALLIZED THEN 0
        ELSE IF ts[other].level < LEVEL.HOUSE THEN 0
        ELSE LET dist == hexDistance(t, other)
                 range == SERVICE_RANGE[ts[other].level]
             IN  IF dist <= range THEN range - dist + 1 ELSE 0
      score == SumOver(TileIds, [other \in TileIds |-> Contribution(other)])
  IN  IF score = 0
        THEN [num |-> 1, den |-> hexDistance(t, centerTile)]
        ELSE [num |-> score, den |-> 1]

\* a.score > b.score
ScoreGreater(a, b) == a.num * b.den > b.num * a.den

\* scored[0].tile without the sort: the first neighbour
BestScoredUnsorted(ts, neighbors) == neighbors[1]

\* scored.sort((a, b) => b.score - a.score)[0].tile: the sort is stable, so
\* this is the first neighbour no other neighbour scores above
BestScored(ts, neighbors) ==
  Bind([i \in 1 .. Len(neighbors) |-> getServiceScore(ts, neighbors[i])],
       LAMBDA score :
         neighbors[CHOOSE i \in 1 .. Len(neighbors) :
                     /\ \A j \in 1 .. Len(neighbors) :
                          ~ScoreGreater(score[j], score[i])
                     /\ \A h \in 1 .. (i - 1) :
                          \E j \in 1 .. Len(neighbors) :
                            ScoreGreater(score[j], score[h])])

\* walk without its test of alive
walkAnyAgent(g, k) ==
  LET a == g.agents[k]
      neighbors == getNeighbors(TileQ(a.tile), TileR(a.tile))
  IN  IF Len(neighbors) = 0 THEN g
      ELSE
        LET d1 == NextDraw(g)
            g1 == Drawn(g)
        IN  IF Below(d1, controls.biasedWalkChance)
              THEN [g1 EXCEPT !.agents[k].tile = BestScored(g.tiles, neighbors)]
              ELSE [Drawn(g1) EXCEPT !.agents[k].tile = Pick(NextDraw(g1), neighbors)]

\* Agent.walk() of the k-th agent
walk(g, k) ==
  LET a == g.agents[k]
      neighbors == getNeighbors(TileQ(a.tile), TileR(a.tile))
  IN  IF ~a.alive THEN g
      ELSE IF Len(neighbors) = 0 THEN g
      ELSE
        LET d1 == NextDraw(g)
            g1 == Drawn(g)
        IN  IF Below(d1, controls.biasedWalkChance)
              THEN [g1 EXCEPT !.agents[k].tile = BestScored(g.tiles, neighbors)]
              ELSE [Drawn(g1) EXCEPT !.agents[k].tile = Pick(NextDraw(g1), neighbors)]

----------------------------------------------------------------------------
(* Grid *)

\* the tiles of new Grid(nRows, nCols, size)
createTiles == [t \in TileIds |-> NewTile]

\* seedCenter seeding the tile at (0, 0)
seedCenterAtOrigin(ts) ==
  [ts EXCEPT ![getTile(0, 0)].state = STATE_SPACE.CRYSTALLIZED,
             ![getTile(0, 0)].level = LEVEL.HOUSE]

\* Grid.seedCenter on the tiles ts
seedCenter(ts) ==
  IF centerTile # null
    THEN [ts EXCEPT ![centerTile].state = STATE_SPACE.CRYSTALLIZED,
                    ![centerTile].level = LEVEL.HOUSE]
    ELSE ts

\* the edgeTiles array of _getRandomEdgeTile, in push order
edgeTiles ==
  LET topBottom == [i \in 1 .. 2 * nCols |->
                      IF i % 2 = 1 THEN getTile((i - 1) \div 2, 0)
                                   ELSE getTile((i - 1) \div 2, nRows - 1)]
      sideRows == IF nRows > 2 THEN nRows - 2 ELSE 0
      leftRight == [i \in 1 .. 2 * sideRows |->
                      IF i % 2 = 1 THEN getTile(0, (i - 1) \div 2 + 1)
                                   ELSE getTile(nCols - 1, (i - 1) \div 2 + 1)]
  IN  SelectSeq(topBottom \o leftRight, NotNull)

\* Grid.spawnAgent
spawnAgent(g) ==
  LET edge == Pick(NextDraw(g), edgeTiles)
      g1 == Drawn(g)
  IN  IF g.tiles[edge].state # STATE_SPACE.CRYSTALLIZED
        THEN [g1 EXCEPT !.agents = Append(@, NewAgent(edge))]
        ELSE g1

\* the toEvolve filter of evolveAll
toEvolve(ts) ==
  {t \in TileIds : ts[t].morphProgress >= ProgressOne /\ canPromote(ts, t)}

\* Grid.evolveAll
evolveAll(g, time) ==
  Bind(toEvolve(g.tiles), LAMBDA chosen :
    Returning(
      [g EXCEPT !.tiles =
         [t \in TileIds |->
            IF t \in chosen
              THEN setTargetLevel(g.tiles[t],
                                  EVOLUTION[g.tiles[t].level].next, time)
              ELSE g.tiles[t]]],
      "evolveAll", Cardinality(chosen)))

\* the loop "for (const tile of toEvolve) tile.setTargetLevel(...)"
RECURSIVE applyPromotions(_, _, _)
applyPromotions(ts, seq, time) ==
  IF seq = <<>> THEN ts
  ELSE applyPromotions(
         [ts EXCEPT ![Head(seq)] =
            setTargetLevel(@, EVOLUTION[@.level].next, time)],
         Tail(seq), time)

\* evolveAll promoting the first tile of toEvolve only
evolveAllScanFirstOnly(g, order, time) ==
  LET Chosen(t) ==
        g.tiles[t].morphProgress >= ProgressOne /\ canPromote(g.tiles, t)
      chosen == SelectSeq(order, Chosen)
  IN  Returning(
        [g EXCEPT !.tiles =
           applyPromotions(g.tiles,
                           IF chosen = <<>> THEN <<>> ELSE <<Head(chosen)>>,
                           time)],
        "evolveAll", Len(chosen))

\* Grid.evolveAll with this.tiles in the order given: the filter over the
\* tiles, then the loop over toEvolve
evolveAllScan(g, order, time) ==
  LET Chosen(t) ==
        g.tiles[t].morphProgress >= ProgressOne /\ canPromote(g.tiles, t)
      chosen == SelectSeq(order, Chosen)
  IN  Returning(
        [g EXCEPT !.tiles = applyPromotions(g.tiles, chosen, time)],
        "evolveAll", Len(chosen))

\* canDieFromCompetition comparing with >= instead of >
canDieFromCompetitionAtCap(ts, t) ==
  LET range == SERVICE_RANGE[ts[t].level]
      Competes(o) == o # t /\ ts[o].level = ts[t].level
      competitors ==
        SelectSeq(getTilesInRange(TileQ(t), TileR(t), range), Competes)
  IN  Len(competitors) >= MAX_COMPETITORS[ts[t].level]

\* Grid.canDieFromCompetition
canDieFromCompetition(ts, t) ==
  LET range == SERVICE_RANGE[ts[t].level]
      Competes(o) == o # t /\ ts[o].level = ts[t].level
      competitors ==
        SelectSeq(getTilesInRange(TileQ(t), TileR(t), range), Competes)
  IN  Len(competitors) > MAX_COMPETITORS[ts[t].level]

\* isServedBy applying the competition rule at every level
isServedByCompeting(ts, t) ==
  /\ ~canDieFromCompetition(ts, t)
  /\ \/ ts[t].level >= LEVEL.FACTORY
     \/ \E other \in TileIds :
          /\ other # t
          /\ ts[other].state = STATE_SPACE.CRYSTALLIZED
          /\ ts[other].level > ts[t].level
          /\ hexDistance(t, other) <= SERVICE_RANGE[ts[other].level]

\* Grid.isServedBy
isServedBy(ts, t) ==
  IF ts[t].level >= LEVEL.FACTORY THEN ~canDieFromCompetition(ts, t)
  ELSE \E other \in TileIds :
         /\ other # t
         /\ ts[other].state = STATE_SPACE.CRYSTALLIZED
         /\ ts[other].level > ts[t].level
         /\ hexDistance(t, other) <= SERVICE_RANGE[ts[other].level]

\* number of tiles the grace test of decayPass counts
nonEmptyCount(ts) ==
  Cardinality({t \in TileIds : ts[t].state # STATE_SPACE.EMPTY})

\* the grace test with a threshold of 8 tiles
graceSkippedAtEight(ts) == nonEmptyCount(ts) <= 8

\* the early return of decayPass: "start decay after 10 entities are created"
graceSkipped(ts) == nonEmptyCount(ts) <= 10

\* the collecting loop without its test of morphProgress
decayCandidateAnyProgress(ts, t) ==
  /\ ts[t].state = STATE_SPACE.CRYSTALLIZED
  /\ ~isServedBy(ts, t)

\* a tile the collecting loop of decayPass draws a random value for
decayCandidate(ts, t) ==
  /\ ts[t].state = STATE_SPACE.CRYSTALLIZED
  /\ ts[t].morphProgress >= ProgressOne
  /\ ~isServedBy(ts, t)

\* the collecting loop of decayPass from tile t on: acc.toDemote is the set
\* collected so far, acc.g the run with its random values
RECURSIVE decayCollect(_, _)
decayCollect(acc, t) ==
  IF t >= NumTiles THEN acc
  ELSE IF decayCandidate(acc.g.tiles, t)
    THEN Bind([g |-> Drawn(acc.g),
               toDemote |-> IF Below(NextDraw(acc.g), controls.decayProb)
                              THEN acc.toDemote \cup {t} ELSE acc.toDemote],
              LAMBDA acc1 : decayCollect(acc1, t + 1))
    ELSE decayCollect(acc, t + 1)

\* every demotion going to EMPTY
demotedLevelToEmpty(l) == LEVEL.EMPTY

\* the level decayPass passes to setTargetLevel for a tile of level l
demotedLevel(l) == IF l - 1 < LEVEL.HOUSE THEN LEVEL.EMPTY ELSE l - 1

\* Grid.decayPass
decayPass(g, time) ==
  IF graceSkipped(g.tiles) THEN Returning(g, "decayPass", null)
  ELSE
    Bind(decayCollect([g |-> g, toDemote |-> {}], 0), LAMBDA col :
      Returning(
        [col.g EXCEPT !.tiles =
           [t \in TileIds |->
              IF t \in col.toDemote
                THEN setTargetLevel(g.tiles[t],
                                    demotedLevel(g.tiles[t].level), time)
                ELSE g.tiles[t]]],
        "decayPass", Cardinality(col.toDemote)))

\* the loop "for (const tile of grid.tiles) tile.updateMorphing()"
updateAllMorphing(ts, time) == [t \in TileIds |-> updateMorphing(ts[t], time)]

\* grid.agents.filter((a) => a.alive)
IsAlive(a) == a.alive

\* the filter keeping every agent
removeDeadKeepingAll(as) == as

removeDead(as) == SelectSeq(as, IsAlive)

\* the spawn test without its comparison with maxAgents
spawnDueUncapped(frame, as) == frame % controls.spawnRate = 0

spawnDue(frame, as) ==
  frame % controls.spawnRate = 0 /\ Len(as) < controls.maxAgents

evolveDue(frame) == frame % controls.evolveRate = 0

decayDue(frame) == frame % controls.decayRate = 0

----------------------------------------------------------------------------
(* The sketch: setup(), draw() and the two buttons *)

NoRet == [op |-> "none", val |-> null]

NoProbe ==
  [op |-> "none", a |-> null, b |-> null, c |-> null,
   q |-> 0, r |-> 0, range |-> 0]

NoOut ==
  [neighbors |-> <<>>, ab |-> 0, ba |-> 0, aa |-> 0, ac |-> 0, bc |-> 0,
   inRange |-> <<>>]

\* the run made of the sketch's grid and the random values ds
Run(ts, as, ds) ==
  [tiles |-> ts, agents |-> as, rnd |-> ds, starved |-> FALSE, ret |-> ret]

DrawSeqs(n) == [1 .. n -> Draws]

\* the values of the controls object the simulated runs are started with
BaseControls ==
  [spawnRate |-> 1, maxAgents |-> 1, stickingProb |-> 700,
   evolveRate |-> 2, shadowFactor |-> 5, biasedWalkChance |-> 300,
   paused |-> FALSE, decayRate |-> 2, decayProb |-> 505]

SetupControls ==
  {BaseControls,
   [BaseControls EXCEPT !.stickingProb = 1000],
   [BaseControls EXCEPT !.maxAgents = 2]}

\* the second run and the grid queries are not part of the sketch proper
DetIdle ==
  /\ tilesB = <<>> /\ agentsB = <<>> /\ nowB = 0
  /\ stream = <<>> /\ posA = 0 /\ posB = 0

HexIdle == probe = NoProbe /\ out = NoOut

\* the state setup() leaves
Init ==
  /\ nCols = MaxCols /\ nRows = MaxRows
  /\ tiles = seedCenter(createTiles)
  /\ agents = <<>>
  /\ frameCount = 0
  /\ now = 0
  /\ controls \in SetupControls
  /\ pc = "idle" /\ ai = 1 /\ ret = NoRet
  /\ DetIdle /\ HexIdle

\* draw() while controls.paused: nothing of the simulation runs
DrawPaused ==
  /\ pc = "idle" /\ controls.paused /\ frameCount < MaxFrame
  /\ frameCount' = frameCount + 1
  /\ \E dt \in ClockSteps : now' = now + dt
  /\ UNCHANGED <<nCols, nRows, tiles, agents, controls, pc, ai, ret>>
  /\ UNCHANGED <<detVars, hexVars>>

\* draw(), up to and including the spawn
DrawSpawn ==
  /\ pc = "idle" /\ ~controls.paused /\ frameCount < MaxFrame
  /\ frameCount' = frameCount + 1
  /\ \E dt \in ClockSteps : now' = now + dt
  /\ IF spawnDue(frameCount + 1, agents)
       THEN \E ds \in DrawSeqs(1) :
              agents' = spawnAgent(Run(tiles, agents, ds)).agents
       ELSE agents' = agents
  /\ pc' = IF Len(agents') > 0 THEN "walk" ELSE "remove"
  /\ ai' = 1
  /\ UNCHANGED <<nCols, nRows, tiles, controls, ret>>
  /\ UNCHANGED <<detVars, hexVars>>

\* agent.walk() of the agent the loop is at
AgentWalk ==
  /\ pc = "walk"
  /\ \E ds \in DrawSeqs(2) : agents' = walk(Run(tiles, agents, ds), ai).agents
  /\ pc' = "aggregate"
  /\ UNCHANGED <<nCols, nRows, tiles, frameCount, now, controls, ai, ret>>
  /\ UNCHANGED <<detVars, hexVars>>

\* agent.aggregate(controls.stickingProb) of the agent the loop is at
AgentAggregate ==
  /\ pc = "aggregate"
  /\ \E ds \in DrawSeqs(1) :
       LET g == aggregate(Run(tiles, agents, ds), ai, controls.stickingProb)
       IN  tiles' = g.tiles /\ agents' = g.agents /\ ret' = g.ret
  /\ ai' = ai + 1
  /\ pc' = IF ai < Len(agents) THEN "walk" ELSE "remove"
  /\ UNCHANGED <<nCols, nRows, frameCount, now, controls>>
  /\ UNCHANGED <<detVars, hexVars>>

\* grid.agents = grid.agents.filter((a) => a.alive)
RemoveDead ==
  /\ pc = "remove"
  /\ agents' = removeDead(agents)
  /\ pc' = "evolve"
  /\ UNCHANGED <<nCols, nRows, tiles, frameCount, now, controls, ai, ret>>
  /\ UNCHANGED <<detVars, hexVars>>

\* if (frameCount % controls.evolveRate === 0) grid.evolveAll()
EvolvePass ==
  /\ pc = "evolve"
  /\ IF evolveDue(frameCount)
       THEN LET g == evolveAll(Run(tiles, agents, <<>>), now)
            IN  tiles' = g.tiles /\ ret' = g.ret
       ELSE UNCHANGED <<tiles, ret>>
  /\ pc' = "decay"
  /\ UNCHANGED <<nCols, nRows, agents, frameCount, now, controls, ai>>
  /\ UNCHANGED <<detVars, hexVars>>

\* number of random values decayPass requests on the tiles ts
decayDraws(ts) ==
  IF graceSkipped(ts) THEN 0
  ELSE Cardinality({t \in TileIds : decayCandidate(ts, t)})

\* if (frameCount % controls.decayRate === 0) grid.decayPass()
DecayPass ==
  /\ pc = "decay"
  /\ IF decayDue(frameCount)
       THEN \E ds \in DrawSeqs(decayDraws(tiles)) :
              LET g == decayPass(Run(tiles, agents, ds), now)
              IN  tiles' = g.tiles /\ ret' = g.ret
       ELSE UNCHANGED <<tiles, ret>>
  /\ pc' = "morph"
  /\ UNCHANGED <<nCols, nRows, agents, frameCount, now, controls, ai>>
  /\ UNCHANGED <<detVars, hexVars>>

\* for (const tile of grid.tiles) tile.updateMorphing()
MorphPass ==
  /\ pc = "morph"
  /\ tiles' = updateAllMorphing(tiles, now)
  /\ pc' = "idle"
  /\ UNCHANGED <<nCols, nRows, agents, frameCount, now, controls, ai, ret>>
  /\ UNCHANGED <<detVars, hexVars>>

\* the Pause button
PausePressed ==
  /\ pc = "idle"
  /\ controls' = [controls EXCEPT !.paused = ~@]
  /\ UNCHANGED <<nCols, nRows, tiles, agents, frameCount, now, pc, ai, ret>>
  /\ UNCHANGED <<detVars, hexVars>>

\* the Reset button: grid = new Grid(rows, cols, size); grid.seedCenter()
ResetPressed ==
  /\ pc = "idle"
  /\ tiles' = seedCenter(createTiles)
  /\ agents' = <<>>
  /\ UNCHANGED <<nCols, nRows, frameCount, now, controls, pc, ai, ret>>
  /\ UNCHANGED <<detVars, hexVars>>

Next ==
  \/ DrawPaused
  \/ DrawSpawn
  \/ AgentWalk
  \/ AgentAggregate
  \/ RemoveDead
  \/ EvolvePass
  \/ DecayPass
  \/ MorphPass
  \/ PausePressed
  \/ ResetPressed

Spec == Init /\ [][Next]_vars

----------------------------------------------------------------------------
(* Runs picked up in the middle: a grid as a run of the sketch leaves it     *)
(* after many frames, one frame before the evolution and decay cadences.    *)

\* a tile can have reached level l only if it has the neighbours the
\* promotions up to l ask for
Reachable(t, l) ==
  IF l <= LEVEL.HOUSE THEN TRUE
  ELSE Len(getNeighbors(TileQ(t), TileR(t))) >= EVOLUTION[l - 1].threshold

Building(l) ==
  [state |-> STATE_SPACE.CRYSTALLIZED, level |-> l,
   targetLevel |-> IF l = LEVEL.HOUSE THEN LEVEL.EMPTY ELSE l,
   morphProgress |-> ProgressOne, morphStartTime |-> 0]

CandidateTile == [NewTile EXCEPT !.state = STATE_SPACE.CANDIDATE]

\* focus tile f of level lf, the tiles of near buildings of level ln,
\* another building o of level lo (o = null: none), and all other tiles
\* CANDIDATE but the e first of them, which are EMPTY
Scenario(f, lf, near, ln, o, lo, e) ==
  CHOOSE ts \in
    {[t \in TileIds |->
        IF t = f THEN Building(lf)
        ELSE IF t \in near THEN Building(ln)
        ELSE IF t = o THEN Building(lo)
        ELSE IF t \in empties THEN NewTile
        ELSE CandidateTile] :
       empties \in
         {{t \in rest : Cardinality({u \in rest : u < t}) < e} :
            rest \in {TileIds \ ({f, o} \cup near)}}} : TRUE

\* the first tile at distance d of f that is not one of near
OtherAt(f, d, near) ==
  LET S == {t \in TileIds \ ({f} \cup near) : hexDistance(f, t) = d}
  IN  IF S = {} THEN null ELSE CHOOSE t \in S : \A u \in S : t <= u

NoSpawnControls == [BaseControls EXCEPT !.spawnRate = 5]

ScenarioControls ==
  {NoSpawnControls,
   [NoSpawnControls EXCEPT !.decayRate = 3, !.decayProb = 1000],
   [BaseControls EXCEPT !.spawnRate = 3],
   [BaseControls EXCEPT !.spawnRate = 3, !.biasedWalkChance = 1000]}

InitScen ==
  /\ nCols = ScenCols /\ nRows = ScenRows
  /\ controls \in ScenarioControls
  /\ \E f \in {0, centerTile}, lf \in 1 .. 4, ln \in {1, 3}, e \in 1 .. 3 :
       \E m \in 0 .. 4, d \in 0 .. 4, lo \in {2, 4} :
         \E nbrs \in {getNeighbors(TileQ(f), TileR(f))} :
           /\ m <= Len(nbrs)
           /\ \E near \in {{nbrs[i] : i \in 1 .. m}} :
                \E o \in {IF d = 0 THEN null ELSE OtherAt(f, d, near)} :
                  /\ Reachable(f, lf)
                  /\ \A t \in near : Reachable(t, ln)
                  /\ IF d = 0 THEN lo = 2
                     ELSE (IF o = null THEN FALSE ELSE Reachable(o, lo))
                  /\ IF m = 0 THEN ln = 1 ELSE TRUE
                  /\ IF e > 1 THEN m = 0 /\ d = 0 ELSE TRUE
                  /\ IF controls.spawnRate = 3
                       THEN /\ m = 0 \/ controls.biasedWalkChance = 1000
                            /\ d = 0 /\ e = 1
                       ELSE TRUE
                  /\ tiles = Scenario(f, lf, near, ln, o, lo, e)
  /\ agents = <<>>
  /\ frameCount = MaxFrame - ScenFrames
  /\ now = 0
  /\ pc = "idle" /\ ai = 1 /\ ret = NoRet
  /\ DetIdle /\ HexIdle

SpecScen == InitScen /\ [][Next]_vars

----------------------------------------------------------------------------
(* Two runs of the sketch after randomSeed(seed) with the same seed and the *)
(* same controls.  The seeded generator yields one sequence of values,      *)
(* stream, of which each run consumes a prefix; the runs differ only in     *)
(* what millis() returns to them.                                           *)

InitDet ==
  /\ nCols = MaxCols /\ nRows = MaxRows
  /\ tiles = seedCenter(createTiles)
  /\ agents = <<>>
  /\ frameCount = 0
  /\ now = 0
  /\ controls = BaseControls
  /\ pc = "idle" /\ ai = 1 /\ ret = NoRet
  /\ tilesB = seedCenter(createTiles) /\ agentsB = <<>> /\ nowB = 0
  /\ stream = <<>> /\ posA = 0 /\ posB = 0
  /\ HexIdle

Min2(a, b) == IF a <= b THEN a ELSE b

\* The same step F(run, millis()) of draw() in each of the two runs, the
\* step requesting at most n random values.  stream holds the generated
\* values from the first one that some run has not consumed yet.
Both(n, F(_, _), timeA, timeB) ==
  \E ext \in DrawSeqs(n) :
    \E full \in {stream \o ext}, base \in {Min2(posA, posB)} :
      \E gA \in {F(Run(tiles, agents,
                       SubSeq(full, posA - base + 1, Len(full))), timeA)},
         gB \in {F(Run(tilesB, agentsB,
                       SubSeq(full, posB - base + 1, Len(full))), timeB)} :
        /\ ~gA.starved /\ ~gB.starved
        /\ tiles' = gA.tiles /\ agents' = gA.agents /\ ret' = gA.ret
        /\ tilesB' = gB.tiles /\ agentsB' = gB.agents
        /\ posA' = base + Len(full) - Len(gA.rnd)
        /\ posB' = base + Len(full) - Len(gB.rnd)
        /\ stream' = SubSeq(full, Min2(posA', posB') - base + 1,
                                  Max2(posA', posB') - base)

\* the longer of the two agent lists
BothAgents == Max2(Len(agents), Len(agentsB))

DrawSpawnBoth ==
  /\ pc = "idle" /\ frameCount < MaxFrame
  /\ frameCount' = frameCount + 1
  /\ \E dtA \in ClockSteps, dtB \in ClockSteps :
       now' = now + dtA /\ nowB' = nowB + dtB
  /\ Both(1, LAMBDA g, time :
               IF spawnDue(frameCount + 1, g.agents) THEN spawnAgent(g) ELSE g,
          0, 0)
  /\ pc' = IF Max2(Len(agents'), Len(agentsB')) > 0 THEN "walk" ELSE "remove"
  /\ ai' = 1
  /\ UNCHANGED <<nCols, nRows, controls>>
  /\ UNCHANGED hexVars

AgentWalkBoth ==
  /\ pc = "walk"
  /\ Both(2, LAMBDA g, time : IF ai <= Len(g.agents) THEN walk(g, ai) ELSE g,
          now, nowB)
  /\ pc' = "aggregate"
  /\ UNCHANGED <<nCols, nRows, frameCount, now, nowB, controls, ai>>
  /\ UNCHANGED hexVars

AgentAggregateBoth ==
  /\ pc = "aggregate"
  /\ Both(1, LAMBDA g, time :
               IF ai <= Len(g.agents)
                 THEN aggregate(g, ai, controls.stickingProb) ELSE g,
          now, nowB)
  /\ ai' = ai + 1
  /\ pc' = IF ai < BothAgents THEN "walk" ELSE "remove"
  /\ UNCHANGED <<nCols, nRows, frameCount, now, nowB, controls>>
  /\ UNCHANGED hexVars

RemoveDeadBoth ==
  /\ pc = "remove"
  /\ Both(0, LAMBDA g, time : [g EXCEPT !.agents = removeDead(@)], now, nowB)
  /\ pc' = "evolve"
  /\ UNCHANGED <<nCols, nRows, frameCount, now, nowB, controls, ai>>
  /\ UNCHANGED hexVars

EvolvePassBoth ==
  /\ pc = "evolve"
  /\ Both(0, LAMBDA g, time :
               IF evolveDue(frameCount) THEN evolveAll(g, time) ELSE g,
          now, nowB)
  /\ pc' = "decay"
  /\ UNCHANGED <<nCols, nRows, frameCount, now, nowB, controls, ai>>
  /\ UNCHANGED hexVars

DecayPassBoth ==
  /\ pc = "decay"
  /\ Both(Max2(decayDraws(tiles), decayDraws(tilesB)),
          LAMBDA g, time :
            IF decayDue(frameCount) THEN decayPass(g, time) ELSE g,
          now, nowB)
  /\ pc' = "morph"
  /\ UNCHANGED <<nCols, nRows, frameCount, now, nowB, controls, ai>>
  /\ UNCHANGED hexVars

MorphPassBoth ==
  /\ pc = "morph"
  /\ Both(0, LAMBDA g, time : [g EXCEPT !.tiles = updateAllMorphing(@, time)],
          now, nowB)
  /\ pc' = "idle"
  /\ UNCHANGED <<nCols, nRows, frameCount, now, nowB, controls, ai>>
  /\ UNCHANGED hexVars

NextDet ==
  \/ DrawSpawnBoth
  \/ AgentWalkBoth
  \/ AgentAggregateBoth
  \/ RemoveDeadBoth
  \/ EvolvePassBoth
  \/ DecayPassBoth
  \/ MorphPassBoth

SpecDet == InitDet /\ [][NextDet]_vars

----------------------------------------------------------------------------
(* The grid queries on grids of every size up to HexCols x HexRows *)

InitHex ==
  /\ nCols \in 1 .. HexCols /\ nRows \in 1 .. HexRows
  /\ tiles = seedCenter(createTiles)
  /\ agents = <<>>
  /\ frameCount = 0
  /\ now = 0
  /\ controls = BaseControls
  /\ pc = "idle" /\ ai = 1 /\ ret = NoRet
  /\ DetIdle /\ HexIdle

\* getNeighbors at tile a, hexDistance between the tiles a, b and c
HexQuery ==
  /\ probe = NoProbe
  /\ \E a \in TileIds, b \in TileIds, c \in TileIds :
       /\ probe' = [op |-> "distance", a |-> a, b |-> b, c |-> c,
                    q |-> TileQ(a), r |-> TileR(a), range |-> 0]
       /\ out' = [neighbors |-> getNeighbors(TileQ(a), TileR(a)),
                  ab |-> hexDistanceTwice(a, b),
                  ba |-> hexDistanceTwice(b, a),
                  aa |-> hexDistanceTwice(a, a),
                  ac |-> hexDistanceTwice(a, c),
                  bc |-> hexDistanceTwice(b, c),
                  inRange |-> <<>>]
  /\ UNCHANGED <<simVars, detVars>>

\* the ranges getTilesInRange is called with: SERVICE_RANGE of a level
ServiceRanges == {SERVICE_RANGE[l] : l \in DOMAIN SERVICE_RANGE}

\* getTilesInRange(q, r, range), also for (q, r) one step outside the grid,
\* next to getNeighbors(q, r) for (q, r) inside
RangeQuery ==
  /\ probe = NoProbe
  /\ \E q \in (0 - 1) .. nCols, r \in (0 - 1) .. nRows, range \in ServiceRanges :
       \E a \in {getTile(q, r)} :
         /\ probe' = [op |-> "range", a |-> a, b |-> a, c |-> a,
                      q |-> q, r |-> r, range |-> range]
         /\ out' = [NoOut EXCEPT
                      !.neighbors = IF a = null THEN <<>> ELSE getNeighbors(q, r),
                      !.inRange = getTilesInRange(q, r, range)]
  /\ UNCHANGED <<simVars, detVars>>

NextHex == HexQuery \/ RangeQuery

SpecHex == InitHex /\ [][NextHex]_vars

----------------------------------------------------------------------------
(* One tile on its own: the calls the sketch makes on a tile, setTargetLevel *)
(* from evolveAll and decayPass, updateMorphing from draw() and the          *)
(* crystallization of aggregate, at the times millis() gives.               *)

TileSteps == {250, 500, 1000}

InitTile ==
  /\ nCols = 1 /\ nRows = 1
  /\ \E l \in LEVEL.HOUSE .. LEVEL.FACTORY : tiles = [t \in {0} |-> Building(l)]
  /\ agents = <<>>
  /\ frameCount = 0
  /\ now = 0
  /\ controls = BaseControls
  /\ pc = "tile" /\ ai = 1 /\ ret = NoRet
  /\ DetIdle /\ HexIdle

\* the levels evolveAll and decayPass pass to setTargetLevel for a tile of
\* level l, and l itself, for which setTargetLevel returns at once
TargetsOf(l) ==
  {l, demotedLevel(l)} \cup (IF l \in DOMAIN EVOLUTION THEN {EVOLUTION[l].next} ELSE {})

\* tile.setTargetLevel(l) on a CRYSTALLIZED tile with no morph in flight
TileSetTarget ==
  /\ pc = "tile"
  /\ tiles[0].state = STATE_SPACE.CRYSTALLIZED
  /\ tiles[0].morphProgress >= ProgressOne
  /\ \E l \in TargetsOf(tiles[0].level) :
       /\ tiles' = [tiles EXCEPT ![0] = setTargetLevel(@, l, now)]
       /\ ret' = [op |-> "setTargetLevel", val |-> l]
  /\ UNCHANGED <<nCols, nRows, agents, frameCount, now, controls, pc, ai>>
  /\ UNCHANGED <<detVars, hexVars>>

\* tile.updateMorphing()
TileUpdate ==
  /\ pc = "tile"
  /\ tiles' = [tiles EXCEPT ![0] = updateMorphing(@, now)]
  /\ ret' = [op |-> "updateMorphing", val |-> null]
  /\ UNCHANGED <<nCols, nRows, agents, frameCount, now, controls, pc, ai>>
  /\ UNCHANGED <<detVars, hexVars>>

\* the successful branch of aggregate on the tile
TileCrystallize ==
  /\ pc = "tile"
  /\ tiles[0].state # STATE_SPACE.CRYSTALLIZED
  /\ tiles' = [tiles EXCEPT ![0].state = STATE_SPACE.CRYSTALLIZED,
                            ![0].level = LEVEL.HOUSE]
  /\ ret' = [op |-> "aggregate", val |-> TRUE]
  /\ UNCHANGED <<nCols, nRows, agents, frameCount, now, controls, pc, ai>>
  /\ UNCHANGED <<detVars, hexVars>>

\* time passes
TileClock ==
  /\ pc = "tile"
  /\ \E dt \in TileSteps : now + dt <= MaxClock /\ now' = now + dt
  /\ ret' = [op |-> "millis", val |-> null]
  /\ UNCHANGED <<nCols, nRows, tiles, agents, frameCount, controls, pc, ai>>
  /\ UNCHANGED <<detVars, hexVars>>

NextTile == TileSetTarget \/ TileUpdate \/ TileCrystallize \/ TileClock

SpecTile == InitTile /\ [][NextTile]_vars

\* the tile on its own under the scheduling of the sketch: p5 calls draw()
\* frame after frame, so updateMorphing keeps being called on the tile, and
\* millis() keeps growing (up to MaxClock here)
SpecTileLive ==
  InitTile /\ [][NextTile]_vars /\ WF_vars(TileClock) /\ WF_vars(TileUpdate)

----------------------------------------------------------------------------
(* Two agents on their own: walk and aggregate called on either of them in  *)
(* any order, also after it died; frameCount counts the calls.              *)

InitAgent ==
  /\ nCols = MaxCols /\ nRows = MaxRows
  /\ tiles = seedCenter(createTiles)
  /\ \E t1 \in {edgeTiles[1], edgeTiles[3]}, t2 \in {edgeTiles[1], edgeTiles[3]} :
       agents = <<NewAgent(t1), NewAgent(t2)>>
  /\ frameCount = 0
  /\ now = 0
  /\ controls = BaseControls
  /\ pc = "agent" /\ ai = 1 /\ ret = NoRet
  /\ DetIdle /\ HexIdle

\* agent.walk() of the k-th agent
CallWalk ==
  /\ pc = "agent" /\ frameCount < MaxCalls
  /\ \E k \in 1 .. Len(agents), ds \in DrawSeqs(2) :
       /\ agents' = walk(Run(tiles, agents, ds), k).agents
       /\ ai' = k
  /\ ret' = [op |-> "walk", val |-> null]
  /\ frameCount' = frameCount + 1
  /\ UNCHANGED <<nCols, nRows, tiles, now, controls, pc>>
  /\ UNCHANGED <<detVars, hexVars>>

\* agent.aggregate(controls.stickingProb) of the k-th agent
CallAggregate ==
  /\ pc = "agent" /\ frameCount < MaxCalls
  /\ \E k \in 1 .. Len(agents), ds \in DrawSeqs(1) :
       \E g \in {aggregate(Run(tiles, agents, ds), k, controls.stickingProb)} :
         /\ tiles' = g.tiles /\ agents' = g.agents /\ ret' = g.ret
         /\ ai' = k
  /\ frameCount' = frameCount + 1
  /\ UNCHANGED <<nCols, nRows, now, controls, pc>>
  /\ UNCHANGED <<detVars, hexVars>>

NextAgent == CallWalk \/ CallAggregate

SpecAgent == InitAgent /\ [][NextAgent]_vars

----------------------------------------------------------------------------
(* Properties *)

Morphing(tl) == tl.morphProgress < ProgressOne

\* what a snapshot of the grid records: state and level of every tile
Snapshot(ts) == [t \in TileIds |-> <<ts[t].state, ts[t].level>>]

\* C1: after the same number of frames, two runs with the same seed and the
\* same controls have identical tile snapshots, whatever millis() returned
\* to each of them.
C1_Determinism == pc = "idle" => Snapshot(tiles) = Snapshot(tilesB)

\* a completed morph of tile t: updateMorphing brought morphProgress to 1
\* and stored targetLevel in level
MorphCompleted(t) ==
  /\ pc = "morph"
  /\ Morphing(tiles[t])
  /\ ~Morphing(tiles'[t])
  /\ tiles'[t].level = tiles[t].targetLevel

\* C2 as claimed: the level of a tile changes only in a step that completes
\* a morph of that tile; aggregate, walk, spawnAgent, evolveAll and decayPass
\* change no level.
C2_LevelOnlyByMorph ==
  [][ResetPressed \/
     \A t \in TileIds :
       tiles'[t].level # tiles[t].level => MorphCompleted(t)]_vars

\* aggregate of the agent the loop is at crystallizes tile t
Crystallizes(t) ==
  /\ pc = "aggregate"
  /\ agents[ai].tile = t
  /\ tiles[t].level = LEVEL.EMPTY
  /\ tiles'[t].level = LEVEL.HOUSE
  /\ tiles'[t].state = STATE_SPACE.CRYSTALLIZED

\* C2 amended: the level of a tile changes only in a step that completes a
\* morph of that tile, or in the aggregate call that crystallizes the tile
\* (EMPTY to HOUSE); walk, spawnAgent, evolveAll and decayPass change no level.
C2_LevelByMorphOrAggregate ==
  [][ResetPressed \/
     \A t \in TileIds :
       tiles'[t].level # tiles[t].level =>
         MorphCompleted(t) \/ Crystallizes(t)]_vars

\* a promotion has completed on one tile and an agent has crystallized another
C2_Witness ==
  /\ \E t \in TileIds : tiles[t].level = LEVEL.SHOP /\ ~Morphing(tiles[t])
  /\ \E t \in TileIds \ {centerTile} : tiles[t].level = LEVEL.HOUSE

\* C3: between operations a tile has level > EMPTY exactly when its state
\* is CRYSTALLIZED: a morph to EMPTY resets level and state together.
C3_LevelIffCrystallized ==
  \A t \in TileIds :
    (tiles[t].level > LEVEL.EMPTY) <=> (tiles[t].state = STATE_SPACE.CRYSTALLIZED)

\* a demotion of a HOUSE to EMPTY has completed
C3_Witness ==
  \E t \in TileIds :
    /\ tiles[t].state = STATE_SPACE.EMPTY
    /\ tiles[t].level = LEVEL.EMPTY
    /\ tiles[t].targetLevel = LEVEL.EMPTY
    /\ tiles[t].morphStartTime > 0
    /\ ~Morphing(tiles[t])

\* C4: while a tile has a morph in flight, no step changes its targetLevel
\* or its morphStartTime: evolveAll and decayPass select no morphing tile,
\* also not one that evolveAll set morphing in the same frame.
C4_NoDoubleTransition ==
  [][ResetPressed \/
     \A t \in TileIds :
       Morphing(tiles[t]) =>
         /\ tiles'[t].targetLevel = tiles[t].targetLevel
         /\ tiles'[t].morphStartTime = tiles[t].morphStartTime]_vars

\* evolveAll and decayPass both ran in this frame, decayPass past its grace
\* test, and a tile promoted by evolveAll was unserved when decayPass scanned it
C4_Witness ==
  /\ pc = "morph"
  /\ evolveDue(frameCount) /\ decayDue(frameCount)
  /\ ret.op = "decayPass" /\ ret.val # null
  /\ \E t \in TileIds :
       /\ tiles[t].morphProgress = 0
       /\ tiles[t].morphStartTime = now
       /\ tiles[t].targetLevel > tiles[t].level
       /\ ~isServedBy(tiles, t)

\* C5: aggregate on a live agent whose tile is not CRYSTALLIZED and has a
\* CRYSTALLIZED neighbour: with a draw below rho the tile becomes
\* CRYSTALLIZED at level HOUSE, the agent dies and true is returned;
\* otherwise the tile is CANDIDATE, the agent lives and false is returned.
\* With rho = 1.0 every draw is below rho.
C5_Aggregate ==
  (/\ pc = "aggregate"
   /\ agents[ai].alive
   /\ tiles[agents[ai].tile].state # STATE_SPACE.CRYSTALLIZED
   /\ couldBeCandidate(tiles, agents[ai].tile))
  => \A d \in Draws :
       \E g \in {aggregate(Run(tiles, agents, <<d>>), ai, controls.stickingProb)},
          t \in {agents[ai].tile} :
         /\ IF Below(d, controls.stickingProb)
              THEN /\ g.tiles[t].state = STATE_SPACE.CRYSTALLIZED
                   /\ g.tiles[t].level = LEVEL.HOUSE
                   /\ ~g.agents[ai].alive
                   /\ g.ret.val = TRUE
              ELSE /\ g.tiles[t].state = STATE_SPACE.CANDIDATE
                   /\ g.tiles[t].level = tiles[t].level
                   /\ g.agents[ai].alive
                   /\ g.ret.val = FALSE
         /\ controls.stickingProb = 1000 => Below(d, controls.stickingProb)

\* with rho = 1.0 an agent has crystallized a neighbour of the seeded centre
C5_Witness ==
  /\ controls.stickingProb = 1000
  /\ ret.op = "aggregate" /\ ret.val = TRUE
  /\ \E k \in 1 .. Len(agents) :
       /\ ~agents[k].alive
       /\ hexDistance(agents[k].tile, centerTile) = 1
       /\ tiles[agents[k].tile].state = STATE_SPACE.CRYSTALLIZED
       /\ tiles[agents[k].tile].level = LEVEL.HOUSE


\* the promotion rule as stated: threshold of crystallized neighbours of
\* level <= the tile's level, and the level the promotion leads to
RuleThreshold(l) ==
  CASE l = LEVEL.HOUSE -> 2 [] l = LEVEL.SHOP -> 3 [] l = LEVEL.TOWER -> 4

RuleTarget(l) ==
  CASE l = LEVEL.HOUSE -> LEVEL.SHOP
    [] l = LEVEL.SHOP -> LEVEL.TOWER
    [] l = LEVEL.TOWER -> LEVEL.FACTORY

LowerNeighbours(t) ==
  {n \in Range(getNeighbors(TileQ(t), TileR(t))) :
     IsCrystallized(tiles, n) /\ tiles[n].level <= tiles[t].level}

Eligible(t) ==
  /\ tiles[t].state = STATE_SPACE.CRYSTALLIZED
  /\ tiles[t].level \in {LEVEL.HOUSE, LEVEL.SHOP, LEVEL.TOWER}
  /\ Cardinality(LowerNeighbours(t)) >= RuleThreshold(tiles[t].level)
  /\ ~\E o \in TileIds \ {t} :
        /\ tiles[o].state = STATE_SPACE.CRYSTALLIZED
        /\ tiles[o].level >= RuleTarget(tiles[t].level)
        /\ 10 * hexDistance(t, o)
             <= SERVICE_RANGE[RuleTarget(tiles[t].level)] * controls.shadowFactor

C7_GraceDemotesNothing ==
  [][(pc = "decay" /\ nonEmptyCount(tiles) < 10) => tiles' = tiles]_vars

\* decayPass returned early on a grid of 9 non-EMPTY tiles holding an
\* unserved building, with decayProb = 1.0
C7_Witness ==
  /\ pc = "morph"
  /\ decayDue(frameCount)
  /\ ret.op = "decayPass" /\ ret.val = null
  /\ nonEmptyCount(tiles) = 9
  /\ controls.decayProb = 1000
  /\ \E t \in TileIds :
       IsCrystallized(tiles, t) /\ ~Morphing(tiles[t]) /\ ~isServedBy(tiles, t)

\* another tile of level FACTORY within hexDistance 4 of t
FactoryRival(ts, t) ==
  \E o \in TileIds \ {t} :
    ts[o].level = LEVEL.FACTORY /\ hexDistance(t, o) <= 4

\* position of tile t among the tiles decayPass draws a value for
DrawIndex(ts, t) ==
  Cardinality({u \in TileIds : u <= t /\ decayCandidate(ts, u)})

\* C8: in a decay pass past the grace test, a CRYSTALLIZED, non-morphing
\* FACTORY with another FACTORY within distance 4 begins a morph to TOWER
\* exactly when its draw is below decayProb; one with no such FACTORY is
\* left as it is.
C8_FactoryCompetition ==
  (pc = "decay" /\ decayDue(frameCount) /\ ~graceSkipped(tiles))
  => \A t \in TileIds :
       (/\ tiles[t].level = LEVEL.FACTORY
        /\ tiles[t].state = STATE_SPACE.CRYSTALLIZED
        /\ ~Morphing(tiles[t]))
       => \A ds \in DrawSeqs(decayDraws(tiles)) :
            \E g \in {decayPass(Run(tiles, agents, ds), now)} :
              IF FactoryRival(tiles, t)
                   /\ Below(ds[DrawIndex(tiles, t)], controls.decayProb)
                THEN g.tiles[t] = [tiles[t] EXCEPT !.targetLevel = LEVEL.TOWER,
                                                   !.morphProgress = 0,
                                                   !.morphStartTime = now]
                ELSE g.tiles[t] = tiles[t]

\* a FACTORY with another FACTORY in range has begun its demotion
C8_Witness ==
  /\ pc = "morph"
  /\ ret.op = "decayPass" /\ ret.val # null
  /\ \E t \in TileIds :
       /\ tiles[t].level = LEVEL.FACTORY
       /\ tiles[t].targetLevel = LEVEL.TOWER
       /\ tiles[t].morphProgress = 0
       /\ FactoryRival(tiles, t)

\* a tile of the interior of the grid
Interior(t) ==
  /\ TileQ(t) >= 1 /\ TileQ(t) <= nCols - 2
  /\ TileR(t) >= 1 /\ TileR(t) <= nRows - 2

\* C9: getNeighbors of an in-bounds tile returns at most 6 tiles, none
\* null, no tile twice, all in bounds and at hexDistance exactly 1; exactly
\* 6 for an interior tile.
C9_Neighbors ==
  probe.a # null =>
    /\ Len(out.neighbors) <= 6
    /\ \A i \in 1 .. Len(out.neighbors) :
         /\ out.neighbors[i] # null
         /\ out.neighbors[i] \in TileIds
         /\ hexDistanceTwice(probe.a, out.neighbors[i]) = 2
         /\ \A j \in 1 .. Len(out.neighbors) :
              out.neighbors[i] = out.neighbors[j] => i = j
    /\ Interior(probe.a) => Len(out.neighbors) = 6

\* the neighbours of an interior tile of an odd column were queried
C9_Witness ==
  /\ probe.a # null
  /\ Interior(probe.a)
  /\ TileQ(probe.a) % 2 = 1
  /\ Len(out.neighbors) = 6

\* C10: hexDistance is a metric with non-negative integer values:
\* d(a, a) = 0, d(a, b) = d(b, a), d(a, c) <= d(a, b) + d(b, c), and twice
\* the distance is an even number >= 0.
C10_Metric ==
  probe.a # null =>
    /\ out.aa = 0
    /\ out.ab = out.ba
    /\ out.ac <= out.ab + out.bc
    /\ out.ab >= 0 /\ out.ab % 2 = 0
    /\ out.ac % 2 = 0 /\ out.bc % 2 = 0

\* three different tiles, two of them in odd columns, were measured
C10_Witness ==
  /\ probe.a # null
  /\ probe.a # probe.b /\ probe.b # probe.c /\ probe.a # probe.c
  /\ TileQ(probe.a) % 2 = 1 /\ TileQ(probe.c) % 2 = 1
  /\ out.ac = out.ab + out.bc
  /\ out.ab > 2

\* C11: getTilesInRange(q, r, range) returns exactly the tiles at
\* hexDistance <= range of the tile at (q, r), each once, that tile
\* included, and nothing when (q, r) is out of bounds; for range 1 these
\* are the tile and its getNeighbors.
C11_TilesInRange ==
  probe.op = "range" =>
    IF probe.a = null THEN out.inRange = <<>>
    ELSE
      /\ Range(out.inRange) =
           {t \in TileIds : hexDistanceTwice(probe.a, t) <= 2 * probe.range}
      /\ Len(out.inRange) = Cardinality(Range(out.inRange))
      /\ probe.a \in Range(out.inRange)
      /\ probe.range = 1 =>
           Range(out.inRange) = {probe.a} \cup Range(out.neighbors)

\* range 1 was asked around an interior tile, giving the tile and its 6
\* neighbours but not every tile of the grid
C11_Witness ==
  /\ probe.op = "range" /\ probe.a # null /\ probe.range = 1
  /\ Len(out.inRange) = 7
  /\ NumTiles > 7

\* an out-of-bounds (q, r) was asked and nothing was returned
C11_WitnessOutside ==
  /\ probe.op = "range" /\ probe.a = null /\ probe.range > 0
  /\ out.inRange = <<>>

\* C12: morphProgress of a tile never decreases in an updateMorphing call
\* (the clock not going back); it goes down, to 0, only in a setTargetLevel
\* call whose level differs from the tile's level.
C12_ProgressMonotone ==
  [][\A t \in TileIds :
       /\ tiles'[t].morphProgress < tiles[t].morphProgress =>
            /\ ret'.op = "setTargetLevel"
            /\ ret'.val # tiles[t].level
            /\ tiles'[t].morphProgress = 0
       /\ ret'.op = "updateMorphing" =>
            tiles'[t].morphProgress >= tiles[t].morphProgress]_vars

\* updateMorphing has brought a morph to three quarters of its duration
C12_Witness ==
  /\ pc = "tile"
  /\ ret.op = "updateMorphing"
  /\ now - tiles[0].morphStartTime = 750
  /\ tiles[0].morphProgress = EasedProgress(750)
  /\ tiles[0].morphProgress > EasedProgress(500)
  /\ tiles[0].morphProgress < ProgressOne

\* C13: a dead agent is inert: no call changes its tile reference or makes
\* it alive again, and a walk or aggregate call on it changes the state and
\* level of no tile, aggregate returning false.
C13_DeadAgentInert ==
  [][\A k \in 1 .. Len(agents) :
       ~agents[k].alive =>
         /\ agents'[k] = agents[k]
         /\ ai' = k =>
              /\ Snapshot(tiles') = Snapshot(tiles)
              /\ ret'.op = "aggregate" => ret'.val = FALSE]_vars

\* walk was called on an agent that died crystallizing a tile, while the
\* other agent is still alive
C13_Witness ==
  /\ pc = "agent"
  /\ ret.op = "walk"
  /\ ~agents[ai].alive
  /\ tiles[agents[ai].tile].state = STATE_SPACE.CRYSTALLIZED
  /\ \E k \in 1 .. Len(agents) : agents[k].alive

\* the grid as a reset is to leave it: one CRYSTALLIZED HOUSE at
\* (floor(nCols / 2), floor(nRows / 2)), every other tile EMPTY at level
\* EMPTY, no morph in flight, no agent
FreshGrid ==
  /\ DOMAIN tiles = 0 .. (nCols * nRows - 1)
  /\ \A t \in DOMAIN tiles :
       /\ ~Morphing(tiles[t])
       /\ IF t = (nRows \div 2) * nCols + (nCols \div 2)
            THEN /\ tiles[t].state = STATE_SPACE.CRYSTALLIZED
                 /\ tiles[t].level = LEVEL.HOUSE
            ELSE /\ tiles[t].state = STATE_SPACE.EMPTY
                 /\ tiles[t].level = LEVEL.EMPTY
  /\ agents = <<>>

\* C14: a reset leaves the grid with its dimensions, exactly one
\* CRYSTALLIZED tile, the HOUSE at (floor(nCols / 2), floor(nRows / 2)),
\* every other tile EMPTY at level EMPTY with no morph in flight, and no
\* agent.
C14_Reset ==
  [][ResetPressed => (nCols' = nCols /\ nRows' = nRows /\ FreshGrid')]_vars

\* the grid is fresh although an unpaused frame has run to its decay pass,
\* which leaves an agent or a tile it crystallized behind
C14_Witness ==
  /\ pc = "idle"
  /\ FreshGrid
  /\ frameCount >= 2
  /\ ret.op = "decayPass"

\* the tiles a decay pass is to evaluate: CRYSTALLIZED, no morph in flight,
\* unserved
Unserved == {t \in TileIds : decayCandidate(tiles, t)}

\* decayPass has begun a demotion of the tile tl
DemotionBegun(tl, before) ==
  /\ tl.morphProgress = 0
  /\ tl.targetLevel < before.level
  /\ tl.level = before.level

\* C15: a decay pass is skipped exactly while fewer than 10 tiles are
\* non-EMPTY: with fewer it changes nothing, with 10 or more it selects
\* each CRYSTALLIZED, non-morphing, unserved tile exactly when the tile's
\* draw is below decayProb.
C15_DecayFromTen ==
  (pc = "decay" /\ decayDue(frameCount))
  => \A ds \in DrawSeqs(Cardinality(Unserved)) :
       \E g \in {decayPass(Run(tiles, agents, ds), now)} :
         IF nonEmptyCount(tiles) < 10 THEN g.tiles = tiles
         ELSE \A t \in Unserved :
                DemotionBegun(g.tiles[t], tiles[t])
                  <=> Below(ds[DrawIndex(tiles, t)], controls.decayProb)

\* C16: a frame drawn while the simulation is paused still applies
\* updateMorphing to every tile, so that a morph in flight advances, and
\* commits its level, during the pause.
C16_MorphWhilePaused ==
  [][(pc = "idle" /\ controls.paused /\ frameCount' = frameCount + 1)
       => tiles' = updateAllMorphing(tiles, now')]_vars

\* the boundary tiles: q = 0, q = nCols - 1, r = 0 or r = nRows - 1
Boundary ==
  {t \in TileIds : \/ TileQ(t) = 0 \/ TileQ(t) = nCols - 1
                   \/ TileR(t) = 0 \/ TileR(t) = nRows - 1}

\* C17: an unpaused frame on which frameCount mod spawnRate = 0, fewer
\* than maxAgents agents are active and some boundary tile is not
\* CRYSTALLIZED creates exactly one live agent, on a boundary tile that is
\* not CRYSTALLIZED; any other frame creates none.
C17_SpawnOne ==
  [][(pc = "idle" /\ frameCount' = frameCount + 1)
       => IF /\ ~controls.paused
             /\ frameCount' % controls.spawnRate = 0
             /\ Len(agents) < controls.maxAgents
             /\ \E t \in Boundary : tiles[t].state # STATE_SPACE.CRYSTALLIZED
            THEN \E t \in Boundary :
                   /\ tiles[t].state # STATE_SPACE.CRYSTALLIZED
                   /\ agents' = Append(agents, [tile |-> t, alive |-> TRUE])
            ELSE agents' = agents]_vars

\* the agents of as that are alive, in order
LiveOnes(as) ==
  LET Alive(a) == a.alive IN SelectSeq(as, Alive)

\* C18: during the agent pass no agent leaves the active set and only the
\* agent the loop is at is stepped, walk first, then aggregate, every agent
\* from the first to the last once; the dead are removed after the pass,
\* all at once, so that the evolution pass, the decay pass and the end of
\* the frame see live agents only.
C18_DeadRemovedAfterPass ==
  [][ResetPressed \/
     /\ pc \in {"walk", "aggregate"} =>
          /\ Len(agents') = Len(agents)
          /\ \A k \in 1 .. Len(agents) : k # ai => agents'[k] = agents[k]
     /\ (pc = "idle" /\ pc' = "walk") => ai' = 1
     /\ pc = "walk" => (pc' = "aggregate" /\ ai' = ai)
     /\ pc = "aggregate" =>
          /\ ai' = ai + 1
          /\ pc' = IF ai < Len(agents) THEN "walk" ELSE "remove"
     /\ pc = "remove" => agents' = LiveOnes(agents)
     /\ pc' \in {"evolve", "decay", "morph", "idle"} =>
          \A k \in 1 .. Len(agents') : agents'[k].alive]_vars

\* the first agent has crystallized a tile and is still in the active set
\* while the loop steps the second
C18_Witness ==
  /\ pc = "walk" /\ ai = 2
  /\ ~agents[1].alive
  /\ tiles[agents[1].tile].state = STATE_SPACE.CRYSTALLIZED
  /\ agents[2].alive

\* the tiles of S in the order of _createTiles
InOrder(S) ==
  LET Member(t) == t \in S IN SelectSeq(tilesInOrder, Member)

\* scan orders of the tiles: the rotations of the order of _createTiles,
\* its reverse, that order with two adjacent tiles exchanged, and, the
\* tiles evolveAll selects coming first, every order of these (a scan
\* order matters only through the order it gives the selected tiles)
ScanOrders ==
  {[i \in 1 .. NumTiles |-> (i - 1 + k) % NumTiles] : k \in 0 .. (NumTiles - 1)}
  \cup {[i \in 1 .. NumTiles |-> NumTiles - i]}
  \cup {[i \in 1 .. NumTiles |->
          IF i = j THEN j ELSE IF i = j + 1 THEN j - 1 ELSE i - 1] :
        j \in 1 .. (NumTiles - 1)}
  \cup {[i \in 1 .. Len(first) |-> p[first[i]]] \o InOrder(TileIds \ toEvolve(tiles)) :
        p \in Permutations(toEvolve(tiles)), first \in {InOrder(toEvolve(tiles))}}

\* C19: the evolution pass does not depend on the order in which the tiles
\* are scanned: every scan order starts the same morphs, with the same
\* targetLevel, and returns the same count.
C19_EvolveOrderIndependent ==
  (pc = "evolve" /\ evolveDue(frameCount))
  => \E g \in {evolveAll(Run(tiles, agents, <<>>), now)} :
       \A order \in ScanOrders :
         \E h \in {evolveAllScan(Run(tiles, agents, <<>>), order, now)} :
           h.tiles = g.tiles /\ h.ret = g.ret

\* an evolution pass has started the promotion of three tiles that are
\* neighbours of one another
C19_Witness ==
  /\ pc = "decay"
  /\ ret.op = "evolveAll" /\ ret.val >= 3
  /\ \E t \in TileIds, u \in TileIds :
       /\ hexDistance(t, u) = 1
       /\ tiles[t].morphProgress = 0 /\ tiles[t].morphStartTime = now
       /\ tiles[u].morphProgress = 0 /\ tiles[u].morphStartTime = now
       /\ tiles[t].targetLevel = tiles[t].level + 1
       /\ tiles[u].targetLevel = tiles[u].level + 1

\* one level below l, EMPTY below HOUSE
OneBelow(l) ==
  CASE l = LEVEL.FACTORY -> LEVEL.TOWER
    [] l = LEVEL.TOWER -> LEVEL.SHOP
    [] l = LEVEL.SHOP -> LEVEL.HOUSE
    [] l = LEVEL.HOUSE -> LEVEL.EMPTY

\* C20: every tile a decay pass changes was CRYSTALLIZED, not morphing and
\* unserved on the levels the pass started with, and begins a morph toward
\* one level below its own (EMPTY for a HOUSE), keeping level and state;
\* and level and state of a demoted tile stay as they are in every step
\* until the step that completes its morph.
C20_Demotion ==
  [][(\A t \in TileIds :
        (pc = "decay" /\ decayDue(frameCount) /\ tiles'[t] # tiles[t]) =>
          (/\ t \in Unserved
           /\ tiles'[t] = [tiles[t] EXCEPT
                             !.targetLevel = OneBelow(tiles[t].level),
                             !.morphProgress = 0,
                             !.morphStartTime = now]))
     /\
     (\A u \in TileIds :
        (/\ Morphing(tiles[u])
         /\ tiles[u].targetLevel < tiles[u].level
         /\ Morphing(tiles'[u]))
        => (/\ tiles'[u].level = tiles[u].level
            /\ tiles'[u].state = STATE_SPACE.CRYSTALLIZED))]_vars

\* one decay pass has begun the demotion of a HOUSE toward EMPTY and of a
\* higher building toward the level below its own
C20_Witness ==
  /\ pc = "morph"
  /\ ret.op = "decayPass" /\ ret.val >= 2
  /\ \E t \in TileIds, u \in TileIds :
       /\ tiles[t].level = LEVEL.HOUSE /\ tiles[t].targetLevel = LEVEL.EMPTY
       /\ tiles[t].morphProgress = 0 /\ tiles[t].morphStartTime = now
       /\ tiles[t].state = STATE_SPACE.CRYSTALLIZED
       /\ tiles[u].level > LEVEL.HOUSE
       /\ tiles[u].targetLevel = tiles[u].level - 1
       /\ tiles[u].morphProgress = 0 /\ tiles[u].morphStartTime = now

\* the morph of a demoted tile has advanced without completing: the tile
\* still has its level
C20_WitnessInFlight ==
  \E t \in TileIds :
    /\ tiles[t].targetLevel < tiles[t].level
    /\ tiles[t].morphProgress > 0
    /\ Morphing(tiles[t])

\* tile t lies in the service range of another CRYSTALLIZED tile of a
\* strictly higher level, the range being that of the higher tile's level
HigherServer(ts, t) ==
  \E o \in TileIds \ {t} :
    /\ ts[o].state = STATE_SPACE.CRYSTALLIZED
    /\ ts[o].level > ts[t].level
    /\ t \in Range(getTilesInRange(TileQ(o), TileR(o), SERVICE_RANGE[ts[o].level]))

\* C21: a CRYSTALLIZED tile below FACTORY is served exactly when another
\* CRYSTALLIZED tile of strictly higher level has it within that tile's
\* service range, however many tiles of its own level are near; a decay
\* pass leaves such a served tile as it is whatever the draws.
C21_ServedByHigher ==
  \A t \in TileIds :
    (tiles[t].state = STATE_SPACE.CRYSTALLIZED /\ tiles[t].level < LEVEL.FACTORY)
    => /\ isServedBy(tiles, t) <=> HigherServer(tiles, t)
       /\ (pc = "decay" /\ decayDue(frameCount) /\ HigherServer(tiles, t))
          => \A ds \in DrawSeqs(decayDraws(tiles)) :
               decayPass(Run(tiles, agents, ds), now).tiles[t] = tiles[t]

\* a decay pass with decayProb = 1.0 has run past the grace test and left
\* alone a building that has more tiles of its own level in range than
\* MAX_COMPETITORS allows and a higher building serving it
C21_Witness ==
  /\ pc = "morph"
  /\ ret.op = "decayPass" /\ ret.val # null
  /\ controls.decayProb = 1000
  /\ \E t \in TileIds :
       /\ tiles[t].state = STATE_SPACE.CRYSTALLIZED
       /\ tiles[t].level < LEVEL.FACTORY
       /\ ~Morphing(tiles[t])
       /\ canDieFromCompetition(tiles, t)
       /\ HigherServer(tiles, t)

\* a decay pass with decayProb = 1.0 has begun the demotion of a building
\* below FACTORY whose only CRYSTALLIZED neighbours are of its own level
C21_WitnessUnserved ==
  /\ pc = "morph"
  /\ ret.op = "decayPass" /\ ret.val # null
  /\ \E t \in TileIds, u \in TileIds :
       /\ tiles[t].level < LEVEL.FACTORY
       /\ tiles[t].morphProgress = 0
       /\ tiles[t].targetLevel < tiles[t].level
       /\ hexDistance(t, u) = 1
       /\ tiles[u].state = STATE_SPACE.CRYSTALLIZED
       /\ tiles[u].level = tiles[t].level
       /\ ~HigherServer(tiles, t)

\* C22: setTargetLevel(newLevel) with newLevel equal to the tile's level
\* changes no field of the tile; with another level it stores newLevel in
\* targetLevel, 0 in morphProgress and millis() in morphStartTime and
\* leaves level and state, and the level then stays as it is in every step
\* that leaves the morph in flight.
C22_SetTargetLevel ==
  [][/\ ret'.op = "setTargetLevel" =>
          IF ret'.val = tiles[0].level
            THEN tiles'[0] = tiles[0]
            ELSE /\ tiles'[0].targetLevel = ret'.val
                 /\ tiles'[0].morphProgress = 0
                 /\ tiles'[0].morphStartTime = now
                 /\ tiles'[0].level = tiles[0].level
                 /\ tiles'[0].state = tiles[0].state
     /\ (Morphing(tiles[0]) /\ Morphing(tiles'[0])) =>
          /\ tiles'[0].level = tiles[0].level
          /\ tiles'[0].state = tiles[0].state]_vars

\* setTargetLevel has just begun a promotion at a time after 0
C22_Witness ==
  /\ pc = "tile"
  /\ ret.op = "setTargetLevel"
  /\ ret.val > tiles[0].level
  /\ tiles[0].targetLevel = ret.val
  /\ tiles[0].morphProgress = 0
  /\ tiles[0].morphStartTime = now /\ now > 0

\* setTargetLevel was called with the level the tile has after a completed
\* morph and left the tile as that morph left it
C22_WitnessSameLevel ==
  /\ pc = "tile"
  /\ ret.op = "setTargetLevel"
  /\ ret.val = tiles[0].level
  /\ ~Morphing(tiles[0])
  /\ tiles[0].morphStartTime > 0
  /\ tiles[0].morphStartTime < now

\* the service score of tile t as a pair <<numerator, denominator>>: the sum
\* over the CRYSTALLIZED tiles that have t in range of range - distance + 1
\* and, that sum being 0, the inverse of the distance to the centre tile
ServiceScore(ts, t) ==
  LET Serving == {o \in TileIds :
                    /\ ts[o].state = STATE_SPACE.CRYSTALLIZED
                    /\ hexDistanceTwice(t, o) <= 2 * SERVICE_RANGE[ts[o].level]}
      sum == SumOver(Serving,
                     [o \in Serving |->
                        SERVICE_RANGE[ts[o].level] - hexDistance(t, o) + 1])
  IN  IF sum = 0
        THEN <<1, hexDistance(t, (nRows \div 2) * nCols + (nCols \div 2))>>
        ELSE <<sum, 1>>

\* score a is at least score b; a denominator of 0 is infinity
ScoreAtLeast(a, b) == a[1] * b[2] >= b[1] * a[2]

\* C23: the tile of every agent is an in-bounds tile of the grid; walk
\* moves a live agent to a tile getNeighbors gives for its tile, or leaves
\* it where it is when there is none, and leaves a dead agent; in the
\* biased branch no neighbour has a higher service score than the tile
\* moved to.
C23_Walk ==
  /\ \A k \in 1 .. Len(agents) :
       /\ agents[k].tile \in TileIds
       /\ getTile(TileQ(agents[k].tile), TileR(agents[k].tile)) = agents[k].tile
  /\ pc = "walk" =>
       \E a \in {agents[ai]} :
         \E nbrs \in {Range(getNeighbors(TileQ(a.tile), TileR(a.tile)))} :
           \A ds \in DrawSeqs(2) :
             \E to \in {walk(Run(tiles, agents, ds), ai).agents[ai]} :
               /\ to.alive = a.alive
               /\ IF ~a.alive \/ nbrs = {} THEN to.tile = a.tile
                  ELSE /\ to.tile \in nbrs
                       /\ to.tile \in TileIds
                       /\ Below(ds[1], controls.biasedWalkChance) =>
                            \A n \in nbrs :
                              ScoreAtLeast(ServiceScore(tiles, to.tile),
                                           ServiceScore(tiles, n))

\* an agent that always takes the biased branch has walked onto the centre
\* tile, which no CRYSTALLIZED tile has in range and whose score is
\* therefore the inverse of distance 0
C23_Witness ==
  /\ pc = "aggregate"
  /\ controls.biasedWalkChance = 1000
  /\ agents[ai].alive
  /\ agents[ai].tile = centerTile
  /\ ServiceScore(tiles, centerTile) = <<1, 0>>

\* such an agent has walked onto a tile whose score is a sum over two or
\* more CRYSTALLIZED tiles, leaving aside a neighbour of lower score
C23_WitnessSum ==
  /\ pc = "aggregate"
  /\ controls.biasedWalkChance = 1000
  /\ agents[ai].alive
  /\ ServiceScore(tiles, agents[ai].tile)[1] >= 4
  /\ \E n \in Range(edgeTiles) :
       /\ hexDistance(n, agents[ai].tile) = 1
       /\ tiles[n].state # STATE_SPACE.CRYSTALLIZED
       /\ \E m \in Range(getNeighbors(TileQ(n), TileR(n))) :
            ~ScoreAtLeast(ServiceScore(tiles, m),
                          ServiceScore(tiles, agents[ai].tile))

\* C24: in every step of draw() the state of a tile goes neither from
\* CRYSTALLIZED to CANDIDATE nor from CANDIDATE to EMPTY; it becomes
\* CRYSTALLIZED only in the aggregate call of an agent standing on the
\* tile, and goes from CRYSTALLIZED to EMPTY only in the step completing
\* the morph of a HOUSE toward EMPTY; the level stays within 0 .. 4 and no
\* morph of a FACTORY has a target above FACTORY.
C24_StateMachine ==
  [][ResetPressed \/
     \A t \in TileIds :
       /\ ~(/\ tiles[t].state = STATE_SPACE.CRYSTALLIZED
            /\ tiles'[t].state = STATE_SPACE.CANDIDATE)
       /\ ~(/\ tiles[t].state = STATE_SPACE.CANDIDATE
            /\ tiles'[t].state = STATE_SPACE.EMPTY)
       /\ (/\ tiles[t].state # STATE_SPACE.CRYSTALLIZED
           /\ tiles'[t].state = STATE_SPACE.CRYSTALLIZED)
          => (/\ pc = "aggregate"
              /\ agents[ai].tile = t
              /\ agents[ai].alive /\ ~agents'[ai].alive
              /\ ret'.val = TRUE)
       /\ (/\ tiles[t].state = STATE_SPACE.CRYSTALLIZED
           /\ tiles'[t].state = STATE_SPACE.EMPTY)
          => (/\ pc = "morph"
              /\ tiles[t].level = LEVEL.HOUSE
              /\ tiles[t].targetLevel = LEVEL.EMPTY
              /\ Morphing(tiles[t]) /\ ~Morphing(tiles'[t])
              /\ tiles'[t].level = LEVEL.EMPTY)
       /\ tiles'[t].state \in {STATE_SPACE.EMPTY, STATE_SPACE.CANDIDATE,
                               STATE_SPACE.CRYSTALLIZED}
       /\ tiles'[t].level \in LEVEL.EMPTY .. LEVEL.FACTORY
       /\ tiles'[t].targetLevel \in LEVEL.EMPTY .. LEVEL.FACTORY
       /\ (tiles[t].level = LEVEL.FACTORY /\ tiles'[t] # tiles[t])
          => tiles'[t].targetLevel = LEVEL.TOWER]_vars

\* in one frame an agent has crystallized a tile and the demotion of a
\* HOUSE toward EMPTY has completed on another
C24_Witness ==
  /\ pc = "idle"
  /\ ret.op = "aggregate" /\ ret.val = TRUE
  /\ \E t \in TileIds, u \in TileIds :
       /\ tiles[t].state = STATE_SPACE.EMPTY
       /\ tiles[t].morphStartTime > 0
       /\ tiles[t].morphStartTime < now
       /\ ~Morphing(tiles[t])
       /\ tiles[u].state = STATE_SPACE.CRYSTALLIZED
       /\ tiles[u].level = LEVEL.HOUSE
       /\ tiles[u].morphStartTime = 0
       /\ hexDistance(t, u) = 1

\* an agent stands, alive, on a CRYSTALLIZED tile that has a CRYSTALLIZED
\* neighbour, its aggregate call having returned false
C24_WitnessOnBuilding ==
  /\ pc \in {"walk", "remove"}
  /\ ret.op = "aggregate" /\ ret.val = FALSE
  /\ \E k \in 1 .. Len(agents) :
       /\ agents[k].alive
       /\ tiles[agents[k].tile].state = STATE_SPACE.CRYSTALLIZED
       /\ couldBeCandidate(tiles, agents[k].tile)

\* C25: adjacency is symmetric across column parities: tile b is among
\* getNeighbors of tile a exactly when a is among getNeighbors of b, and
\* the neighbours of a are exactly the in-bounds tiles at hexDistance 1
\* from a.
C25_AdjacencySymmetric ==
  probe.op = "distance" =>
    /\ (probe.b \in Range(out.neighbors))
         <=> (probe.a \in Range(getNeighbors(TileQ(probe.b), TileR(probe.b))))
    /\ (probe.b \in Range(out.neighbors)) <=> (out.ab = 2)
    /\ (probe.b \in Range(out.neighbors)) <=> (out.ba = 2)
    /\ Range(out.neighbors) =
         {t \in 0 .. (nCols * nRows - 1) : hexDistanceTwice(probe.a, t) = 2}

\* a tile of an odd column and its neighbour one column to the right and
\* one row down, a direction only the odd-column table has
C25_Witness ==
  /\ probe.op = "distance"
  /\ TileQ(probe.a) % 2 = 1
  /\ TileQ(probe.b) = TileQ(probe.a) + 1
  /\ TileR(probe.b) = TileR(probe.a) + 1
  /\ probe.b \in Range(out.neighbors)
  /\ Len(out.neighbors) = 6

\* two tiles of one row two columns apart: at distance 2, not neighbours
C25_WitnessApart ==
  /\ probe.op = "distance"
  /\ TileR(probe.b) = TileR(probe.a)
  /\ TileQ(probe.b) = TileQ(probe.a) + 2
  /\ probe.b \notin Range(out.neighbors)
  /\ out.ab = 4

\* tile n stands in the way of a promotion toward level l: its level is l
\* or higher, or it has a morph in flight toward l or higher
HoldsLevel(tl, l) ==
  \/ tl.level >= l
  \/ Morphing(tl) /\ tl.targetLevel >= l

\* C26: when an evolution pass begins the morph of a tile t toward level
\* l, no other CRYSTALLIZED tile within hexDistance SERVICE_RANGE[l] *
\* shadowFactor of t has level l or higher or a morph in flight toward l or
\* higher, the tiles selected in the same pass and the promotions begun
\* by an earlier pass included.
C26_ShadowExclusion ==
  [][(pc = "evolve" /\ evolveDue(frameCount)) =>
       \A t \in TileIds :
         tiles'[t] # tiles[t] =>
           \A n \in TileIds \ {t} :
             (/\ tiles'[n].state = STATE_SPACE.CRYSTALLIZED
              /\ hexDistance(t, n) * 10
                   <= SERVICE_RANGE[tiles'[t].targetLevel] * controls.shadowFactor)
             => ~HoldsLevel(tiles'[n], tiles'[t].targetLevel)]_vars

\* C27: a tile with no morph in flight has targetLevel equal to level, so
\* that the geometry draw3D interpolates from level to targetLevel at
\* morphProgress 1 is that of the tile's level; in particular after
\* seedCenter and after an agent crystallized the tile.
C27_TargetIsLevel ==
  \A t \in TileIds :
    ~Morphing(tiles[t]) => tiles[t].targetLevel = tiles[t].level

\* C28: the number of active agents never exceeds maxAgents: it grows
\* only at the start of an unpaused frame, by one, and only from a count
\* strictly below maxAgents.
C28_AgentsBounded ==
  /\ [](Len(agents) <= controls.maxAgents)
  /\ [][Len(agents') > Len(agents) =>
          /\ pc = "idle" /\ ~controls.paused
          /\ frameCount' = frameCount + 1
          /\ Len(agents') = Len(agents) + 1
          /\ Len(agents) < controls.maxAgents
          /\ controls' = controls]_vars

\* a frame has begun with maxAgents agents active, the one the loop is at
\* standing on the centre tile, where no agent is spawned: the spawn that
\* was due on this frame was not made
C28_Witness ==
  /\ pc = "walk" /\ ai = 1
  /\ frameCount % controls.spawnRate = 0
  /\ Len(agents) = controls.maxAgents
  /\ agents[1].alive
  /\ agents[1].tile = centerTile
  /\ centerTile \notin Range(edgeTiles)

\* two agents are active at once
C28_WitnessTwo ==
  /\ Len(agents) = 2 /\ controls.maxAgents = 2
  /\ agents[1].alive /\ agents[2].alive

\* the times at which a morph can begin: the values millis() takes, which
\* are sums of TileSteps
MorphStarts == {250 * k : k \in 0 .. (MaxClock \div 250)}

\* C29: every morph completes: a morph begun by setTargetLevel at a time
\* that leaves the clock room for morphDuration is followed by a state in
\* which morphProgress is 1 and level is the targetLevel the morph began
\* with, state being EMPTY if that target is EMPTY; and while the morph is
\* in flight no step changes its targetLevel or its morphStartTime.
C29_MorphCompletes ==
  /\ \A l \in LEVEL.EMPTY .. LEVEL.FACTORY, s \in MorphStarts :
       (/\ Morphing(tiles[0])
        /\ tiles[0].targetLevel = l
        /\ tiles[0].morphStartTime = s
        /\ s + morphDuration <= MaxClock)
       ~> (/\ tiles[0].morphProgress = ProgressOne
           /\ tiles[0].level = l
           /\ tiles[0].morphStartTime = s
           /\ l = LEVEL.EMPTY => tiles[0].state = STATE_SPACE.EMPTY)
  /\ [][Morphing(tiles[0]) =>
          /\ tiles'[0].targetLevel = tiles[0].targetLevel
          /\ tiles'[0].morphStartTime = tiles[0].morphStartTime]_vars

\* the morph of a HOUSE toward EMPTY, begun after time 0, has completed in
\* the updateMorphing call just made
C29_Witness ==
  /\ pc = "tile"
  /\ ret.op = "updateMorphing"
  /\ tiles[0].morphProgress = ProgressOne
  /\ tiles[0].morphStartTime > 0
  /\ now >= tiles[0].morphStartTime + morphDuration
  /\ tiles[0].level = LEVEL.EMPTY
  /\ tiles[0].state = STATE_SPACE.EMPTY

\* a morph is in flight with room left on the clock for it to complete
C29_WitnessInFlight ==
  /\ pc = "tile"
  /\ Morphing(tiles[0])
  /\ tiles[0].morphProgress > 0
  /\ tiles[0].targetLevel > tiles[0].level
  /\ tiles[0].morphStartTime + morphDuration <= MaxClock

====
